---- MODULE Spec2Model ----
(***************************************************************************)
(* Model of the two offline data-maintenance scripts of the job board:     *)
(*   - the slug discoverer (generateSlugCandidates, makeRequest,           *)
(*     probeGreenhouse, probeLever, processFirm, main);                    *)
(*   - the job fetcher (scripts/fetch-jobs.js: fetchWithTimeout,           *)
(*     batchProcess, fetchGreenhouseJobs, fetchLeverJobs,                  *)
(*     fetchJSearchJobs, matchJSearchToFirms, main).                       *)
(* JavaScript strings on which the code works character by character are   *)
(* sequences of one-character strings; "" is <<>>.                         *)
(***************************************************************************)
EXTENDS Integers, Sequences, FiniteSets, TLC

\* ------------------------------------------------------------------------
\* String primitives (String.prototype methods and the regular expressions
\* the scripts use), on sequences of characters.
\* ------------------------------------------------------------------------

UpperChars == <<"A","B","C","D","E","F","G","H","I","J","K","L","M",
                "N","O","P","Q","R","S","T","U","V","W","X","Y","Z">>

LowerChars == <<"a","b","c","d","e","f","g","h","i","j","k","l","m",
                "n","o","p","q","r","s","t","u","v","w","x","y","z">>

Digits == {"0","1","2","3","4","5","6","7","8","9"}

IsUpper(c) == \E i \in 1..Len(UpperChars) : UpperChars[i] = c

IsLower(c) == \E i \in 1..Len(LowerChars) : LowerChars[i] = c

\* \s of the regular expressions (the names of the model hold no other
\* white space than the blank)
IsSpace(c) == c = " "

LowerOf(c) ==
  IF IsUpper(c)
  THEN LowerChars[CHOOSE i \in 1..Len(UpperChars) : UpperChars[i] = c]
  ELSE c

toLowerCase(s) == [i \in 1..Len(s) |-> LowerOf(s[i])]

\* s.substring(from) with a 1-based first index
Rest(s, from) == SubSeq(s, from, Len(s))

RECURSIVE SkipSpaces(_, _)
\* the first index >= i of s that holds no white space (Len(s)+1 if none)
SkipSpaces(s, i) ==
  IF i <= Len(s) /\ IsSpace(s[i]) THEN SkipSpaces(s, i + 1) ELSE i

RECURSIVE LastNonSpace(_, _)
LastNonSpace(s, i) ==
  IF i >= 1 /\ IsSpace(s[i]) THEN LastNonSpace(s, i - 1) ELSE i

trim(s) == SubSeq(s, SkipSpaces(s, 1), LastNonSpace(s, Len(s)))

endsWith(s, suffix) ==
  /\ Len(suffix) <= Len(s)
  /\ SubSeq(s, Len(s) - Len(suffix) + 1, Len(s)) = suffix

startsWithAt(s, i, prefix) ==
  /\ i + Len(prefix) - 1 <= Len(s)
  /\ SubSeq(s, i, i + Len(prefix) - 1) = prefix

\* the first index >= 1 at which sub occurs in s, 0 if none (indexOf + 1)
IndexOf(s, sub) ==
  IF \E i \in 1..(Len(s) + 1) : startsWithAt(s, i, sub)
  THEN CHOOSE i \in 1..(Len(s) + 1) :
         /\ startsWithAt(s, i, sub)
         /\ \A j \in 1..(i - 1) : ~startsWithAt(s, j, sub)
  ELSE 0

includes(s, sub) == IndexOf(s, sub) # 0

\* s without the n characters from index i on; s itself when i = 0
RemoveAt(s, i, n) ==
  IF i = 0 THEN s ELSE SubSeq(s, 1, i - 1) \o Rest(s, i + n)

\* s.replace(sub, '') with a string pattern: the first occurrence only
RemoveFirst(s, sub) == RemoveAt(s, IndexOf(s, sub), Len(sub))

\* s.split(sep)[0], given the index i of the first sep in s (0 if none)
Before(s, i) == IF i = 0 THEN s ELSE SubSeq(s, 1, i - 1)

RECURSIVE RemoveChars(_, _)
\* s.replace(/[...]/g, '') for a character class
RemoveChars(s, class) ==
  IF s = <<>> THEN <<>>
  ELSE IF Head(s) \in class THEN RemoveChars(Tail(s), class)
       ELSE <<Head(s)>> \o RemoveChars(Tail(s), class)

RECURSIVE ReplaceAround(_, _, _, _, _)
\* s.replace(/\s+X\s+/g, repl) when minSpaces = 1 and
\* s.replace(/\s*X\s*/g, repl) when minSpaces = 0, for a literal character
\* X = op; scanned from index i, leftmost match first, white space greedy
ReplaceAround(s, i, op, minSpaces, repl) ==
  IF i > Len(s) THEN <<>>
  ELSE LET j == SkipSpaces(s, i)
           k == SkipSpaces(s, j + 1)
       IN  IF /\ j <= Len(s)
              /\ s[j] = op
              /\ j - i >= minSpaces
              /\ k - (j + 1) >= minSpaces
           THEN repl \o ReplaceAround(s, k, op, minSpaces, repl)
           ELSE <<s[i]>> \o ReplaceAround(s, i + 1, op, minSpaces, repl)

RECURSIVE SkipChar(_, _, _)
SkipChar(s, i, c) ==
  IF i <= Len(s) /\ s[i] = c THEN SkipChar(s, i + 1, c) ELSE i

RECURSIVE CollapseRuns(_, _, _, _)
\* s.replace(/c+/g, repl) for the character c (white space when c = " ")
CollapseRuns(s, i, c, repl) ==
  IF i > Len(s) THEN <<>>
  ELSE IF s[i] = c
       THEN repl \o CollapseRuns(s, SkipChar(s, i, c), c, repl)
       ELSE <<s[i]>> \o CollapseRuns(s, i + 1, c, repl)

RECURSIVE LastNotChar(_, _, _)
LastNotChar(s, i, c) ==
  IF i >= 1 /\ s[i] = c THEN LastNotChar(s, i - 1, c) ELSE i

\* s.replace(/^-+|-+$/g, '')
TrimHyphens(s) == SubSeq(s, SkipChar(s, 1, "-"), LastNotChar(s, Len(s), "-"))

\* (s.match(/-/g) || []).length
HyphenCount(s) == Cardinality({i \in 1..Len(s) : s[i] = "-"})

\* ------------------------------------------------------------------------
\* Slug discoverer: generateSlugCandidates
\* ------------------------------------------------------------------------

\* const suffixes = ['inc.', 'inc', 'llc', 'architecture', 'architects',
\*                   'design', 'group', 'firm', 'company']
suffixes ==
  << <<"i","n","c",".">>,
     <<"i","n","c">>,
     <<"l","l","c">>,
     <<"a","r","c","h","i","t","e","c","t","u","r","e">>,
     <<"a","r","c","h","i","t","e","c","t","s">>,
     <<"d","e","s","i","g","n">>,
     <<"g","r","o","u","p">>,
     <<"f","i","r","m">>,
     <<"c","o","m","p","a","n","y">> >>

\* new URL(website).hostname, given the index at of "://" in website and
\* the host that follows it: the URL parses when it opens with a scheme of
\* letters followed by "://"; the host is lower-cased. <<>> stands for the
\* TypeError of new URL.
HostnameAt(website, at, host) ==
  IF /\ at > 1
     /\ \A i \in 1..(at - 1) : IsUpper(website[i]) \/ IsLower(website[i])
     /\ host # <<>>
  THEN toLowerCase(host)
  ELSE <<>>

\* the host runs to the next "/"
HostPart(after) == Before(after, IndexOf(after, <<"/">>))

URLHostnameAt(website, at) ==
  HostnameAt(website, at, HostPart(Rest(website, at + 3)))

URLHostname(website) ==
  URLHostnameAt(website, IndexOf(website, <<":","/","/">>))

\* h.split('.')[0]
FirstLabel(h) == Before(h, IndexOf(h, <<".">>))

\* url.hostname.replace('www.', '').split('.')[0]
DomainOf(hostname) == FirstLabel(RemoveFirst(hostname, <<"w","w","w",".">>))

\* the for loop over suffixes: the first suffix, in list order, that the
\* clean name ends with is cut off, once
RECURSIVE StripSuffix(_, _)
StripSuffix(cleanName, k) ==
  IF k > Len(suffixes) THEN cleanName
  ELSE IF endsWith(cleanName, suffixes[k])
       THEN trim(SubSeq(cleanName, 1, Len(cleanName) - Len(suffixes[k])))
       ELSE StripSuffix(cleanName, k + 1)

RECURSIVE AcronymEnd(_, _)
\* the first index >= i that holds neither a capital nor white space
AcronymEnd(s, i) ==
  IF i <= Len(s) /\ (IsUpper(s[i]) \/ IsSpace(s[i]))
  THEN AcronymEnd(s, i + 1) ELSE i

\* name.match(/\(([A-Z]+(?:\s+[A-Z]+)*)\)/) at the "(" of index i
AcronymAt(s, i) ==
  LET j == AcronymEnd(s, i + 1)
  IN  /\ s[i] = "("
      /\ j <= Len(s)
      /\ s[j] = ")"
      /\ j > i + 1
      /\ IsUpper(s[i + 1])
      /\ IsUpper(s[j - 1])

\* name.match(...) is not null
HasAcronym(name) == \E i \in 1..Len(name) : AcronymAt(name, i)

\* the index of the "(" of the leftmost match
AcronymStart(name) ==
  CHOOSE i \in 1..Len(name) :
    /\ AcronymAt(name, i)
    /\ \A h \in 1..(i - 1) : ~AcronymAt(name, h)

\* the capture group of the match at i, lower-cased, white space removed
AcronymFrom(name, i) ==
  RemoveChars(toLowerCase(SubSeq(name, i + 1, AcronymEnd(name, i + 1) - 1)),
              {" "})

\* acronymMatch[1].toLowerCase().replace(/\s+/g, ''), <<>> when no match
Acronym(name) ==
  IF HasAcronym(name) THEN AcronymFrom(name, AcronymStart(name)) ELSE <<>>

\* the chain of replace calls of Strategy 3
Normalized(cleanName) ==
  LET and == <<"-","a","n","d","-">>
      r1  == ReplaceAround(cleanName, 1, "&", 1, and)
      r2  == ReplaceAround(r1, 1, "&", 0, <<>>)
      r3  == ReplaceAround(r2, 1, "+", 0, and)
      r4  == ReplaceAround(r3, 1, "|", 0, <<>>)
      r5  == RemoveChars(r4, {"(", ")", ",", ".", "[", "]"})
      r6  == CollapseRuns(r5, 1, " ", <<"-">>)
      r7  == CollapseRuns(r6, 1, "-", <<"-">>)
  IN  TrimHyphens(r7)

RECURSIVE FirstWordEnd(_, _)
FirstWordEnd(s, i) ==
  IF i <= Len(s) /\ s[i] \notin {" ", "&", "|", "+", ",", "(", ")"}
  THEN FirstWordEnd(s, i + 1) ELSE i

\* cleanName.split(/[\s&|+,()]+/)[0]
FirstWord(cleanName) == SubSeq(cleanName, 1, FirstWordEnd(cleanName, 1) - 1)

\* Set.prototype.add on a Set held in insertion order
SetAdd(set, x) ==
  IF \E i \in 1..Len(set) : set[i] = x THEN set ELSE Append(set, x)

\* a comparator that forgets the hyphen count
SlugCompareLengthOnly(a, b) == Len(a) - Len(b)

\* the comparator handed to sort: negative when a goes before b
SlugCompare(a, b) ==
  IF Len(a) # Len(b) THEN Len(a) - Len(b)
  ELSE HyphenCount(a) - HyphenCount(b)

RECURSIVE InsertSorted(_, _)
InsertSorted(sorted, x) ==
  IF sorted = <<>> THEN <<x>>
  ELSE IF SlugCompare(x, Head(sorted)) < 0 THEN <<x>> \o sorted
       ELSE <<Head(sorted)>> \o InsertSorted(Tail(sorted), x)

RECURSIVE SortSlugs(_)
\* Array.prototype.sort with SlugCompare: stable, so equal elements keep
\* the order in which the Set yields them
SortSlugs(list) ==
  IF list = <<>> THEN <<>>
  ELSE InsertSorted(SortSlugs(SubSeq(list, 1, Len(list) - 1)), list[Len(list)])

\* candidates.add(x) under a condition
AddIf(cond, set, x) == IF cond THEN SetAdd(set, x) ELSE set

\* the Set after the six strategies, in insertion order; Strategy 6
\* replaces "and" by "and" and "-and-" by "-and-", so withAnd = normalized
CandidateSet(domain, hasAcronym, acronym, cleanName, baseName, normalized, firstWord) ==
  SetAdd(
    AddIf(Len(firstWord) > 1,
      SetAdd(
        SetAdd(
          AddIf(baseName # cleanName,
            AddIf(hasAcronym,
              AddIf(domain # <<>>, <<>>, toLowerCase(domain)),
              acronym),
            baseName),
          normalized),
        RemoveChars(normalized, {"-"})),
      firstWord),
    normalized)

CandidatesOf(name, domain, cleanName) ==
  CandidateSet(domain, HasAcronym(name), Acronym(name), cleanName,
               StripSuffix(cleanName, 1), Normalized(cleanName),
               FirstWord(cleanName))

\* the domain Strategy 1 takes from firm.website, <<>> when there is no
\* website or new URL throws
WebsiteDomain(firm) ==
  IF "website" \in DOMAIN firm /\ firm.website # <<>>
  THEN DomainOf(URLHostname(firm.website)) ELSE <<>>

generateSlugCandidates(firm) ==
  SortSlugs(SelectSeq(CandidatesOf(firm.name, WebsiteDomain(firm),
                                   trim(toLowerCase(firm.name))),
                      LAMBDA x : Len(x) > 0))

\* ------------------------------------------------------------------------
\* The firm database (data/firms-base.json) the two scripts read
\* ------------------------------------------------------------------------

\* number of firms in the database
NFirms == 6

\* a job posting left in the database file by an earlier edit of the file
StaleJob ==
  [title  |-> <<"O","l","d">>,
   type   |-> "Full-time",
   salary |-> [text |-> "See listing", lo |-> 0, hi |-> 0],
   posted |-> [text |-> "Recently", n |-> 0],
   url    |-> "https://example.org/old"]

FirmCommon(id, name) ==
  [id |-> id, name |-> name, city |-> "Chicago", state |-> "IL",
   lat |-> 41, lng |-> -87, size |-> "Large", discipline |-> "Architecture",
   specialties |-> <<"Civic">>, jobs |-> <<>>, about |-> "About"]

\* obj[key] = value on an object that may not have the key yet
SetField(obj, key, value) ==
  [k \in (DOMAIN obj) \cup {key} |-> IF k = key THEN value ELSE obj[k]]

\* The curated firms, before any discovery. Firm 6 has a name from which
\* no candidate can be derived; firm 1 has two candidates of equal length,
\* the one with a hyphen added to the Set first.
Catalog ==
  << SetField(FirmCommon(1, <<"X","Y","Z">>), "website",
              <<"h","t","t","p","s",":","/","/","x","-","z",".","c","o","m">>),
     SetField(FirmCommon(2, <<"G","e","n","s","l","e","r">>), "website",
              <<"h","t","t","p","s",":","/","/","w","w","w",".",
                "g","e","n","s","l","e","r",".","c","o","m","/">>),
     FirmCommon(3, <<"S","O","M">>),
     FirmCommon(4, <<"H","O","K">>),
     SetField(FirmCommon(5, <<"P","&","Q">>), "jobs", <<StaleJob>>),
     FirmCommon(6, <<"&">>),
     FirmCommon(7, <<"X"," ","&"," ","Y">>),
     FirmCommon(8, <<"A","r","u","p">>),
     FirmCommon(9, <<"Z","G","F">>) >>

FirmsBase0 == SubSeq(Catalog, 1, NFirms)

\* ------------------------------------------------------------------------
\* Slug discoverer: makeRequest and the two probes
\* ------------------------------------------------------------------------

\* const CONCURRENCY = 5 (both scripts)
CONCURRENCY == 5

\* const BATCH_DELAY = 200 (discoverer), ms between batches
BATCH_DELAY == 200

\* status: null of a request that got no response
NoStatus == 0

\* What the network can do to one GET: answer with a status and a body,
\* fail (DNS, connection reset), or stay silent until the timeout.
\* The bodies: "gh" an object whose jobs field is an array, "arr" a
\* top-level array, "obj" an object without jobs, "jobsstr" an object whose
\* jobs field is a string, "null" the JSON text null, "html" no JSON at all.
Statuses == {200, 404, 503}

Bodies == {"gh", "arr", "obj", "jobsstr", "null", "html"}

RawOutcomes ==
  [kind : {"response"}, status : Statuses, body : Bodies]
    \cup {[kind |-> "error", status |-> NoStatus, body |-> "html"],
          [kind |-> "timeout", status |-> NoStatus, body |-> "html"]}

\* JSON.parse(data): the parsed value, "null" for the JSON text null;
\* throws on "html"
JSONParseThrows(body) == body = "html"

\* the value makeRequest's promise resolves with
makeRequest(raw) ==
  IF raw.kind = "response"
  THEN IF JSONParseThrows(raw.body)
       THEN [status |-> raw.status, data |-> "null", error |-> "Invalid JSON"]
       ELSE [status |-> raw.status, data |-> raw.body, error |-> "null"]
  ELSE IF raw.kind = "error"
       THEN [status |-> NoStatus, data |-> "null", error |-> "message"]
       ELSE [status |-> NoStatus, data |-> "null", error |-> "Timeout"]

\* Array.isArray(result.data.jobs), guarded by result.data being truthy
JobsIsArray(data) == data = "gh"

\* Array.isArray(result.data)
IsArray(data) == data = "arr"

\* a Greenhouse probe that looks at the body only, not at the status
probeGreenhouseAnyStatus(slug, raw) ==
  LET result == makeRequest(raw)
  IN  IF result.data # "null" /\ JobsIsArray(result.data)
      THEN [found |-> TRUE, slug |-> slug]
      ELSE [found |-> FALSE]

probeGreenhouse(slug, raw) ==
  LET result == makeRequest(raw)
  IN  IF result.status = 200 /\ result.data # "null" /\ JobsIsArray(result.data)
      THEN [found |-> TRUE, slug |-> slug]
      ELSE [found |-> FALSE]

probeLever(slug, raw) ==
  LET result == makeRequest(raw)
  IN  IF result.status = 200 /\ IsArray(result.data)
      THEN [found |-> TRUE, slug |-> slug]
      ELSE [found |-> FALSE]

\* ------------------------------------------------------------------------
\* Job fetcher: helpers (scripts/fetch-jobs.js)
\* ------------------------------------------------------------------------

\* const DELAY_MS = 300, between the batches of batchProcess
DELAY_MS == 300

\* await sleep(500) after a JSearch query
JSEARCH_SLEEP_MS == 500

\* the 86400000 ms of a day in timeAgo
MsPerDay == 86400000

\* Math.floor(x / d) for d > 0
FloorDiv(x, d) == x \div d

\* timeAgo(dateStr) at the clock reading now; then is the instant dateStr
\* denotes, in ms. The text with a number in it is held as the number n and
\* the rest of the text.
timeAgo(now, then) ==
  LET days == FloorDiv(now - then, MsPerDay)
  IN  IF days = 0 THEN [text |-> "Today", n |-> 0]
      ELSE IF days = 1 THEN [text |-> "1 day ago", n |-> 0]
      ELSE IF days < 7 THEN [text |-> " days ago", n |-> days]
      ELSE IF days < 14 THEN [text |-> "1 week ago", n |-> 0]
      ELSE IF days < 30 THEN [text |-> " weeks ago", n |-> FloorDiv(days, 7)]
      ELSE IF days < 60 THEN [text |-> "1 month ago", n |-> 0]
      ELSE [text |-> " months ago", n |-> FloorDiv(days, 30)]

Recently == [text |-> "Recently", n |-> 0]

SeeListing == [text |-> "See listing", lo |-> 0, hi |-> 0]

Untitled == <<"U","n","t","i","t","l","e","d">>

\* what fetchWithTimeout resolves with: the Response, or null when fetch
\* rejected (transport error) or the timer aborted it (TIMEOUT_MS)
fetchWithTimeout(raw) ==
  IF raw.kind = "response"
  THEN [isNull |-> FALSE, status |-> raw.status, body |-> raw.body]
  ELSE [isNull |-> TRUE, status |-> NoStatus, body |-> raw.body]

\* Response.ok
Ok(resp) == resp.status >= 200 /\ resp.status <= 299

\* /part[\s-]?time/i.test(s), on the lower-cased s
PartTimeTest(s) ==
  \/ includes(s, <<"p","a","r","t","t","i","m","e">>)
  \/ includes(s, <<"p","a","r","t"," ","t","i","m","e">>)
  \/ includes(s, <<"p","a","r","t","-","t","i","m","e">>)

InternTest(s) == includes(s, <<"i","n","t","e","r","n">>)

ContractTest(s) == includes(s, <<"c","o","n","t","r","a","c","t">>)

RECURSIVE MetadataType(_, _)
\* the loop over ghJob.metadata: the value of the first entry whose name
\* holds "type" and whose value is truthy, "" if none
MetadataType(metadata, n) ==
  IF n > Len(metadata) THEN ""
  ELSE IF /\ metadata[n].name # <<>>
          /\ includes(toLowerCase(metadata[n].name), <<"t","y","p","e">>)
          /\ metadata[n].value # ""
       THEN metadata[n].value
       ELSE MetadataType(metadata, n + 1)

extractType(ghJob) ==
  LET fromMeta == MetadataType(ghJob.metadata, 1)
      dept     == IF Len(ghJob.departments) > 0
                  THEN toLowerCase(ghJob.departments[1].name) ELSE <<>>
      title    == toLowerCase(ghJob.title)
  IN  IF fromMeta # "" THEN fromMeta
      ELSE IF Len(ghJob.departments) > 0 /\ InternTest(dept) THEN "Internship"
      ELSE IF Len(ghJob.departments) > 0 /\ PartTimeTest(dept) THEN "Part-time"
      ELSE IF Len(ghJob.departments) > 0 /\ ContractTest(dept) THEN "Contract"
      ELSE IF InternTest(title) THEN "Internship"
      ELSE IF PartTimeTest(title) THEN "Part-time"
      ELSE IF ContractTest(title) THEN "Contract"
      ELSE "Full-time"

AnyNull(items) == \E n \in 1..Len(items) : items[n].isNull

\* fetchGreenhouseJobs(slug), given what the network does to its request.
\* A body that is null, or a jobs array that holds null, raises a
\* TypeError inside the try block: the catch returns [].
fetchGreenhouseJobs(slug, raw, now) ==
  LET resp == fetchWithTimeout(raw)
  IN  IF slug = <<>> THEN <<>>
      ELSE IF resp.isNull \/ ~Ok(resp) THEN <<>>
      ELSE IF resp.body.kind \in {"html", "null"} THEN <<>>
      ELSE IF resp.body.kind # "jobs" THEN <<>>
      ELSE IF AnyNull(resp.body.items) THEN <<>>
      ELSE [n \in 1..Len(resp.body.items) |->
              LET j == resp.body.items[n]
              IN  [title  |-> IF j.title # <<>> THEN j.title ELSE Untitled,
                   type   |-> extractType(j),
                   salary |-> SeeListing,
                   posted |-> IF j.updated_at # 0
                              THEN timeAgo(now, j.updated_at) ELSE Recently,
                   url    |-> j.absolute_url]]

\* fetchLeverJobs(slug), given what the network does to its request
fetchLeverJobs(slug, raw, now) ==
  LET resp == fetchWithTimeout(raw)
  IN  IF slug = <<>> THEN <<>>
      ELSE IF resp.isNull \/ ~Ok(resp) THEN <<>>
      ELSE IF resp.body.kind = "html" THEN <<>>
      ELSE IF resp.body.kind # "arr" THEN <<>>
      ELSE IF AnyNull(resp.body.items) THEN <<>>
      ELSE [n \in 1..Len(resp.body.items) |->
              LET j == resp.body.items[n]
              IN  [title  |-> IF j.text # <<>> THEN j.text ELSE Untitled,
                   type   |-> IF j.commitment # "" THEN j.commitment
                              ELSE "Full-time",
                   salary |-> SeeListing,
                   posted |-> IF j.createdAt # 0
                              THEN timeAgo(now, j.createdAt) ELSE Recently,
                   url    |-> j.hostedUrl]]

\* const queries = [...] of fetchJSearchJobs
queries ==
  << "architect jobs united states",
     "landscape architect jobs united states",
     "urban designer jobs united states" >>

\* a test that never finds the key absent
KeyAbsentNever(apiKey) == FALSE

\* the test "if (!apiKey)" that skips the aggregator pass
KeyAbsent(apiKey) == apiKey = ""

\* one JSearch response handled: the results it adds to allJobs, and
\* whether the loop body ran to its end (the sleep) or left by continue
JSearchHandled(raw) ==
  LET resp == fetchWithTimeout(raw)
  IN  IF resp.isNull \/ ~Ok(resp)
      THEN [added |-> <<>>, sleeps |-> FALSE]
      ELSE IF resp.body.kind = "data"
           THEN [added |-> resp.body.items, sleeps |-> TRUE]
           ELSE [added |-> <<>>, sleeps |-> TRUE]

\* the alternatives of the suffix pattern of normalize
normalizeSuffixes ==
  << <<"i","n","c">>,
     <<"l","l","c">>,
     <<"a","r","c","h","i","t","e","c","t","s">>,
     <<"a","r","c","h","i","t","e","c","t","u","r","e">>,
     <<"d","e","s","i","g","n">>,
     <<"s","t","u","d","i","o">>,
     <<"g","r","o","u","p">>,
     <<"a","s","s","o","c","i","a","t","e","s">>,
     <<"p","a","r","t","n","e","r","s","h","i","p">>,
     <<"c","o","n","s","u","l","t","i","n","g">> >>

RECURSIVE StripNormalizeSuffix(_, _)
\* .replace(/(inc|llc|...)$/g, ''): no alternative is the ending of
\* another, so at most one of them matches at the end
StripNormalizeSuffix(s, k) ==
  IF k > Len(normalizeSuffixes) THEN s
  ELSE IF endsWith(s, normalizeSuffixes[k])
       THEN SubSeq(s, 1, Len(s) - Len(normalizeSuffixes[k]))
       ELSE StripNormalizeSuffix(s, k + 1)

normalize(name) ==
  LET lower == toLowerCase(name)
      alnum == SelectSeq(lower, LAMBDA ch : IsLower(ch) \/ ch \in Digits)
  IN  StripNormalizeSuffix(alnum, 1)

\* Math.round(x / 1000)
RoundK(x) == FloorDiv(x + 500, 1000)

\* firmIndex.get(key): the last firm, in list order, whose normalized name
\* is the key (Map.set overwrites); 0 when there is none
FirmIndexGet(firms, key) ==
  LET hits == {k \in 1..Len(firms) : normalize(firms[k].name) = key}
  IN  IF hits = {} THEN 0 ELSE CHOOSE k \in hits : \A h \in hits : h <= k

\* the job object matchJSearchToFirms builds of one raw result
JSearchJob(j, now) ==
  [title  |-> IF j.job_title # <<>> THEN j.job_title ELSE Untitled,
   type   |-> IF j.job_employment_type # "" THEN j.job_employment_type
              ELSE "Full-time",
   salary |-> IF j.job_min_salary # 0 /\ j.job_max_salary # 0
              THEN [text |-> "range", lo |-> RoundK(j.job_min_salary),
                    hi |-> RoundK(j.job_max_salary)]
              ELSE SeeListing,
   posted |-> IF j.job_posted_at_datetime_utc # 0
              THEN timeAgo(now, j.job_posted_at_datetime_utc) ELSE Recently,
   url    |-> j.job_apply_link]

\* matchJSearchToFirms throws a TypeError at "j.employer_name" when an
\* element of the accumulated results is null
matchThrows(jsearchJobs) == AnyNull(jsearchJobs)

RECURSIVE matchJSearchToFirms(_, _, _)
\* matchJSearchToFirms(jsearchJobs, firms), when it does not throw; a
\* matched entry names its firm by position in the list
matchJSearchToFirms(jsearchJobs, firms, now) ==
  IF jsearchJobs = <<>> THEN [matched |-> <<>>, unmatched |-> <<>>]
  ELSE LET n    == Len(jsearchJobs)
           j    == jsearchJobs[n]
           rest == matchJSearchToFirms(SubSeq(jsearchJobs, 1, n - 1), firms, now)
           firm == FirmIndexGet(firms, normalize(j.employer_name))
           job  == JSearchJob(j, now)
       IN  IF firm # 0
           THEN [rest EXCEPT !.matched = Append(@, [firm |-> firm, job |-> job])]
           ELSE [rest EXCEPT !.unmatched =
                   Append(@, [employer |-> j.employer_name,
                              city |-> j.job_city,
                              state |-> j.job_state,
                              country |-> j.job_country,
                              job |-> job])]

\* a test that compares the title with the last job of the list only
HasTitleLastOnly(jobs, title) ==
  Len(jobs) > 0 /\ jobs[Len(jobs)].title = title

\* "if (!firm.jobs.some(j => j.title === job.title))"
HasTitle(jobs, title) == \E n \in 1..Len(jobs) : jobs[n].title = title

RECURSIVE AddMatched(_, _, _)
\* the loop "for (const { firm, job } of matched)": the firms and jsJobs
\* after the first n matched entries
AddMatched(firms, matched, n) ==
  IF n = 0 THEN [firms |-> firms, jsJobs |-> 0]
  ELSE LET before == AddMatched(firms, matched, n - 1)
           m      == matched[n]
       IN  IF ~HasTitle(before.firms[m.firm].jobs, m.job.title)
           THEN [firms  |-> [before.firms EXCEPT
                               ![m.firm].jobs = Append(@, m.job)],
                 jsJobs |-> before.jsJobs + 1]
           ELSE before

\* the keys of the records of the public output
PublicKeys ==
  {"id", "name", "city", "state", "lat", "lng", "size", "discipline",
   "specialties", "jobs", "website", "about"}

\* a record that carries the whole firm object
OutputRecordWhole(f) == f

\* one element of firms.map(f => ({...})) as JSON.stringify writes it: a key
\* whose value is undefined (the firm has no such field) is left out
OutputRecord(f) == [k \in PublicKeys \cap DOMAIN f |-> f[k]]

\* ------------------------------------------------------------------------
\* The environment of the fetcher: the annotated firm database, the clock
\* and the three services
\* ------------------------------------------------------------------------

\* number of fetcher runs in a row
MaxRuns == 2

\* the firm database as the fetcher finds it: firm k of the catalog with the
\* greenhouse_slug the discoverer leaves when nothing hits (its first
\* candidate; entered by hand for firm 6, which has no candidate) and, for
\* firms 2 and 4, a lever_slug
AnnotateWith(firm, gh) ==
  IF firm.id \in {2, 4}
  THEN SetField(SetField(firm, "greenhouse_slug", gh), "lever_slug", gh)
  ELSE SetField(firm, "greenhouse_slug", gh)

FirstOr(cands, default) == IF Len(cands) > 0 THEN cands[1] ELSE default

Annotate(firm) ==
  AnnotateWith(firm, FirstOr(generateSlugCandidates(firm), <<"A","M","P">>))

AnnotatedBase == [k \in 1..NFirms |-> Annotate(Catalog[k])]

\* instants, in ms since the epoch of the model's clock
ClockStep == MsPerDay \div 4

OldInstant == ClockStep

JobInstant == MsPerDay

\* the clock at the first run: 21 h after JobInstant
Now0 == JobInstant + 3 * ClockStep + ClockStep \div 2

NullItem == [isNull |-> TRUE]

GhJob(title, updated_at, url, metadata, departments) ==
  [isNull |-> FALSE, title |-> title, updated_at |-> updated_at,
   absolute_url |-> url, metadata |-> metadata, departments |-> departments]

LeverPosting(text, commitment, createdAt, url) ==
  [isNull |-> FALSE, text |-> text, commitment |-> commitment,
   createdAt |-> createdAt, hostedUrl |-> url]

JSearchResult(employer, title, type, min, max, posted, link) ==
  [isNull |-> FALSE, employer_name |-> employer, job_title |-> title,
   job_employment_type |-> type, job_min_salary |-> min,
   job_max_salary |-> max, job_posted_at_datetime_utc |-> posted,
   job_apply_link |-> link, job_city |-> "Chicago", job_state |-> "IL",
   job_country |-> "US"]

Body(kind, items) == [kind |-> kind, items |-> items]

Reply(status, body) == [kind |-> "response", status |-> status, body |-> body]

NotFound == Reply(404, Body("obj", <<>>))

\* the job boards Greenhouse serves
GreenhouseBoard(slug) ==
  IF slug = <<"x","y","z">>
  THEN Reply(200, Body("jobs",
         <<GhJob(<<"I","n","t","e","r","n">>, JobInstant, "gh/xyz/1", <<>>, <<>>)>>))
  ELSE IF slug = <<"g","e","n","s","l","e","r">>
  THEN Reply(200, Body("jobs",
         <<GhJob(<<"A","r","c","h","i","t","e","c","t">>, OldInstant, "gh/gensler/1",
                 <<[name |-> <<"J","o","b"," ","T","y","p","e">>, value |-> "Contract"]>>, <<>>),
           GhJob(<<>>, 0, "", <<>>, <<[name |-> <<"P","a","r","t","-","T","i","m","e"," ","S","t","a","f","f">>]>>)>>))
  ELSE IF slug = <<"s","o","m">>
  THEN Reply(200, Body("jobs", <<>>))
  ELSE IF slug = <<"p","q">>
  THEN Reply(200, Body("jobs",
         <<GhJob(<<"A","r","c","h","i","t","e","c","t">>, JobInstant, "gh/pq/1", <<>>, <<>>)>>))
  ELSE IF slug = <<"h","o","k">>
  THEN Reply(200, Body("jobs",
         <<GhJob(<<"D","e","s","i","g","n","e","r">>, JobInstant, "gh/hok/1", <<>>, <<>>)>>))
  ELSE NotFound

\* the postings Lever serves
LeverBoard(slug) ==
  IF slug = <<"g","e","n","s","l","e","r">>
  THEN Reply(200, Body("arr",
         <<LeverPosting(<<"P","l","a","n","n","e","r">>, "Part-time", JobInstant, "lv/gensler/1")>>))
  ELSE IF slug = <<"h","o","k">>
  THEN Reply(200, Body("arr", <<LeverPosting(<<"D","e","s","i","g","n","e","r">>, "", 0, "")>>))
  ELSE NotFound

\* what the aggregator answers to query number q
JSearchAnswer(q) ==
  IF q = 1
  THEN Reply(200, Body("data",
         <<JSearchResult(<<"G","e","n","s","l","e","r"," ","I","n","c",".">>, <<"A","r","c","h","i","t","e","c","t">>, "FULLTIME",
                         80000, 120500, JobInstant, "js/1"),
           JSearchResult(<<"A","c","m","e"," ","S","t","u","d","i","o">>, <<"D","r","a","f","t","e","r">>, "", 0, 0, 0, "js/2")>>))
  ELSE IF q = 2
  THEN Reply(200, Body("data",
         <<JSearchResult(<<"S","O","M">>, <<"U","r","b","a","n","i","s","t">>, "FULLTIME", 0, 90000,
                         OldInstant, "js/3"),
           JSearchResult(<<"S","O","M">>, <<"U","r","b","a","n","i","s","t">>, "PARTTIME", 0, 0, 0, "js/4")>>))
  ELSE Reply(200, Body("data",
         <<JSearchResult(<<"H","O","K"," ","G","r","o","u","p">>, <<"D","e","s","i","g","n","e","r"," ","I","I">>, "", 60000, 70000,
                         JobInstant, "js/5"),
           JSearchResult(<<>>, <<"S","u","r","v","e","y","o","r">>, "", 0, 0, 0, "js/6")>>))

\* the slugs and queries whose request may go wrong in a run
FaultTargets ==
  {[service |-> "greenhouse", slug |-> <<"x","y","z">>, q |-> 0],
   [service |-> "greenhouse", slug |-> <<"h","o","k">>, q |-> 0],
   [service |-> "lever", slug |-> <<"g","e","n","s","l","e","r">>, q |-> 0],
   [service |-> "jsearch", slug |-> <<>>, q |-> 1],
   [service |-> "jsearch", slug |-> <<>>, q |-> 2],
   [service |-> "jsearch", slug |-> <<>>, q |-> 3]}

\* the ways it may go wrong, given the reply it would have got: no answer
\* until the timeout, a transport error, a non-success status (with any
\* body), a body that is no JSON, the JSON null, an object of another
\* shape, the expected array holding null
Faults(good) ==
  {[kind |-> "timeout", status |-> NoStatus, body |-> Body("html", <<>>)],
   [kind |-> "error", status |-> NoStatus, body |-> Body("html", <<>>)],
   Reply(404, Body("html", <<>>)),
   Reply(503, good.body),
   Reply(200, Body("html", <<>>)),
   Reply(200, Body("null", <<>>)),
   Reply(200, Body("obj", <<>>)),
   Reply(200, Body(good.body.kind, <<NullItem>>))}

NoFault == [target |-> [service |-> "none", slug |-> <<>>, q |-> 0],
            raw |-> NotFound]

GoodReply(target) ==
  IF target.service = "greenhouse" THEN GreenhouseBoard(target.slug)
  ELSE IF target.service = "lever" THEN LeverBoard(target.slug)
  ELSE JSearchAnswer(target.q)

\* the services of one behaviour: all answer as above, but for at most one
\* target, which fails the same way at every request
Scenarios ==
  {NoFault} \cup
  UNION {{[target |-> t, raw |-> r] : r \in Faults(GoodReply(t))} :
           t \in FaultTargets}

\* what the network does to the request for a target, under a scenario
Upstream(scenario, target) ==
  IF scenario.target = target THEN scenario.raw ELSE GoodReply(target)

\* ------------------------------------------------------------------------
\* State
\* ------------------------------------------------------------------------

VARIABLES
  script,     \* which of the two scripts this run of node executes
  dataFile,   \* data/firms-base.json: the firm records
  timer,      \* the pending setTimeout of the main driver, NoTimer if none
  slept,      \* history: the delays of the driver that have elapsed, in order
  data,       \* discoverer main: the parsed firm list, mutated in place
  dpc,        \* discoverer main: "start", "batch", "delay", "done"
  di,         \* discoverer main: the loop variable i
  proc,       \* discoverer: one processFirm call per firm
  probes,     \* history: per firm, the probes issued, in order
  results,    \* discoverer main: the summary counters
  summary,    \* discoverer: the summary printed, <<>> before
  prPc,       \* one probe call on its own: "idle", "pending", "resolved",
              \* "returned"
  prCall,     \* one probe call: the provider and the slug
  prRaw,      \* one probe call: what the network did
  prResult,   \* one probe call: what makeRequest resolved with
  prProbe,    \* one probe call: what the probe returned
  scenario,   \* the services during this behaviour
  run,        \* the number of the fetcher run
  apiKey,     \* process.env.JSEARCH_API_KEY || '' of this run
  now,        \* the clock reading of this run (new Date())
  fpc,        \* fetcher main: "start", "pass", "delay", "afterGh", "afterLv",
              \* "js", "jsSleep", "afterJs", "done", "failed"
  firms,      \* fetcher main: the parsed firm list, mutated in place
  pass,       \* fetcher: the provider of the batchProcess call under way
  items,      \* batchProcess: items, as positions in firms
  bi,         \* batchProcess: the loop variable i
  fst,        \* batchProcess: per item, "idle", "inflight" or "done"
  stats,      \* fetcher main: ghHits, ghJobs, lvHits, lvJobs, jsHits, jsJobs
  jq,         \* fetchJSearchJobs: the number of the query under way
  allJobs,    \* fetchJSearchJobs: the results accumulated
  outputFile,       \* mapvoid/firms.json
  discoveriesFile,  \* data/jsearch-discoveries.json
  ghlv,       \* history: the job lists when the Lever pass ended
  jsLog,      \* history: the events of the aggregator pass, in order
  unmatched,  \* history: the unmatched results of this run
  runsLog     \* history: one record per fetcher run that ended

discVars == <<data, dpc, di, proc, probes, results, summary>>

probeVars == <<prPc, prCall, prRaw, prResult, prProbe>>

fileVars == <<outputFile, discoveriesFile>>

batchVars == <<pass, items, bi, fst>>

histVars == <<ghlv, jsLog, unmatched, runsLog>>

fetchVars ==
  <<scenario, run, apiKey, now, fpc, firms, batchVars, stats, jq, allJobs,
    fileVars, histVars>>

mainVars == <<script, dataFile, timer, slept, discVars, fetchVars>>

vars == <<mainVars, probeVars>>

NoTimer == [ms |-> 0, pass |-> "none", i |-> 0]

Firms == 1..NFirms

\* ------------------------------------------------------------------------
\* Slug discoverer: processFirm and main
\* ------------------------------------------------------------------------

IdleProc ==
  [pc |-> "idle", candidates |-> <<>>, c |-> 0,
   foundGreenhouse |-> FALSE, foundLever |-> FALSE]

\* the closing lines of processFirm: the fallback slug and the return
AfterLoop(st, firm) ==
  [st   |-> [st EXCEPT !.pc = "done"],
   firm |-> IF /\ ~st.foundGreenhouse
               /\ ~st.foundLever
               /\ Len(st.candidates) > 0
            THEN SetField(firm, "greenhouse_slug", st.candidates[1])
            ELSE firm,
   probe |-> "none"]

\* a loop that probes Greenhouse again although it has a hit
LoopAtNoShortCircuit(st, firm, c) ==
  IF c > Len(st.candidates) THEN AfterLoop(st, firm)
  ELSE [st |-> [st EXCEPT !.pc = "gh", !.c = c], firm |-> firm,
        probe |-> "greenhouse"]

\* the top of the for loop over candidates, entered for candidate index c:
\* runs up to the next await, or to the return
LoopAt(st, firm, c) ==
  IF c > Len(st.candidates) THEN AfterLoop(st, firm)
  ELSE IF ~st.foundGreenhouse
       THEN [st |-> [st EXCEPT !.pc = "gh", !.c = c], firm |-> firm,
             probe |-> "greenhouse"]
       ELSE IF ~st.foundLever
            THEN [st |-> [st EXCEPT !.pc = "lv", !.c = c], firm |-> firm,
                  probe |-> "lever"]
            ELSE AfterLoop(st, firm)

\* the end of one loop iteration: break when both are found
EndOfIteration(st, firm) ==
  IF st.foundGreenhouse /\ st.foundLever THEN AfterLoop(st, firm)
  ELSE LoopAt(st, firm, st.c + 1)

\* processFirm from the await of probeGreenhouse on
AfterGreenhouse(st, firm, gh) ==
  LET st1   == IF gh.found THEN [st EXCEPT !.foundGreenhouse = TRUE] ELSE st
      firm1 == IF gh.found
               THEN SetField(firm, "greenhouse_slug", st.candidates[st.c])
               ELSE firm
  IN  IF ~st1.foundLever
      THEN [st |-> [st1 EXCEPT !.pc = "lv"], firm |-> firm1, probe |-> "lever"]
      ELSE EndOfIteration(st1, firm1)

\* processFirm from the await of probeLever on
AfterLever(st, firm, lv) ==
  LET st1   == IF lv.found THEN [st EXCEPT !.foundLever = TRUE] ELSE st
      firm1 == IF lv.found
               THEN SetField(firm, "lever_slug", st.candidates[st.c])
               ELSE firm
  IN  EndOfIteration(st1, firm1)

\* processFirm(firm, index) up to its first await
StartFirm(firm) ==
  LoopAt([IdleProc EXCEPT !.candidates = generateSlugCandidates(firm)], firm, 1)

\* data.slice(i, i + CONCURRENCY), as 1-based indices
BatchAt(i, length) ==
  {k \in 1..length : i < k /\ k <= i + CONCURRENCY}

LogIssue(log, step) ==
  IF step.probe = "none" THEN log
  ELSE Append(log, [provider |-> step.probe, c |-> step.st.c,
                    outcome |-> "pending"])

LogOutcome(log, found) ==
  [log EXCEPT ![Len(log)].outcome = IF found THEN "hit" ELSE "miss"]

\* one iteration of main's for loop up to await Promise.all(promises)
StartBatch(i, list) ==
  \E batch \in {BatchAt(i, Len(list))} :
  \E step \in {[k \in batch |-> StartFirm(list[k])]} :
    /\ di' = i
    /\ data' = [k \in 1..Len(list) |->
                  IF k \in batch THEN step[k].firm ELSE list[k]]
    /\ proc' = [k \in Firms |-> IF k \in batch THEN step[k].st ELSE proc[k]]
    /\ probes' = [k \in Firms |->
                   IF k \in batch THEN LogIssue(probes[k], step[k])
                   ELSE probes[k]]
    /\ dpc' = "batch"

\* main up to the first await: read the file, start the first batch
DMain ==
  /\ script = "discoverer"
  /\ dpc = "start"
  /\ StartBatch(0, dataFile)
  /\ results' = [greenhouse |-> 0, lever |-> 0, noMatch |-> 0]
  /\ UNCHANGED <<script, dataFile, timer, slept, summary, probeVars, fetchVars>>

\* the response (or error, or timeout) to the Greenhouse probe of firm k
DGreenhouseResponse(k) ==
  /\ proc[k].pc = "gh"
  /\ \E gh \in {probeGreenhouse(proc[k].candidates[proc[k].c], raw) :
                  raw \in RawOutcomes} :
       \E step \in {AfterGreenhouse(proc[k], data[k], gh)} :
         /\ proc' = [proc EXCEPT ![k] = step.st]
         /\ data' = [data EXCEPT ![k] = step.firm]
         /\ probes' = [probes EXCEPT
                         ![k] = LogIssue(LogOutcome(@, gh.found), step)]
  /\ UNCHANGED <<script, dataFile, timer, slept, dpc, di, results, summary, probeVars, fetchVars>>

\* the response (or error, or timeout) to the Lever probe of firm k
DLeverResponse(k) ==
  /\ proc[k].pc = "lv"
  /\ \E lv \in {probeLever(proc[k].candidates[proc[k].c], raw) :
                  raw \in RawOutcomes} :
       \E step \in {AfterLever(proc[k], data[k], lv)} :
         /\ proc' = [proc EXCEPT ![k] = step.st]
         /\ data' = [data EXCEPT ![k] = step.firm]
         /\ probes' = [probes EXCEPT
                         ![k] = LogIssue(LogOutcome(@, lv.found), step)]
  /\ UNCHANGED <<script, dataFile, timer, slept, dpc, di, results, summary, probeVars, fetchVars>>

RECURSIVE Tally(_, _, _)
\* batchResults.forEach(...) over the batch, in index order
Tally(res, st, ks) ==
  IF ks = {} THEN res
  ELSE LET k == CHOOSE x \in ks : \A y \in ks : x <= y
           r == IF st[k].foundGreenhouse
                THEN [res EXCEPT !.greenhouse = @ + 1]
                ELSE IF st[k].foundLever
                     THEN [res EXCEPT !.lever = @ + 1]
                     ELSE [res EXCEPT !.noMatch = @ + 1]
       IN  Tally(r, st, ks \ {k})

\* Promise.all of the batch resolves: tally, then either sleep before the
\* next batch or write the file and print the summary
DBatchDone ==
  /\ script = "discoverer"
  /\ dpc = "batch"
  /\ \A k \in BatchAt(di, Len(data)) : proc[k].pc = "done"
  /\ results' = Tally(results, proc, BatchAt(di, Len(data)))
  /\ IF di + CONCURRENCY < Len(data)
     THEN /\ dpc' = "delay"
          /\ timer' = [ms |-> BATCH_DELAY, pass |-> "discoverer", i |-> di]
          /\ UNCHANGED <<dataFile, summary>>
     ELSE /\ dpc' = "done"
          /\ dataFile' = data
          /\ summary' = <<[total |-> Len(data),
                           greenhouse |-> results'.greenhouse,
                           lever |-> results'.lever,
                           noMatch |-> results'.noMatch]>>
          /\ UNCHANGED timer
  /\ UNCHANGED <<script, slept, data, di, proc, probes, probeVars,
                 fetchVars>>

\* the delay between batches elapses: the loop goes on with the next batch
DDelayElapsed ==
  /\ script = "discoverer"
  /\ dpc = "delay"
  /\ timer' = NoTimer
  /\ slept' = Append(slept, timer)
  /\ StartBatch(di + CONCURRENCY, data)
  /\ UNCHANGED <<script, dataFile, results, summary, probeVars, fetchVars>>

\* ------------------------------------------------------------------------
\* Job fetcher: batchProcess, fetchJSearchJobs, main
\* ------------------------------------------------------------------------

NoStats ==
  [ghHits |-> 0, ghJobs |-> 0, lvHits |-> 0, lvJobs |-> 0,
   jsHits |-> 0, jsJobs |-> 0]

NoFile == [exists |-> FALSE, content |-> <<>>]

\* a load that keeps the job lists of the database file
ClearJobsKept(f) == f

\* "for (const f of firms) f.jobs = []"
ClearJobs(f) == SetField(f, "jobs", <<>>)

SlugKey(p) == IF p = "greenhouse" THEN "greenhouse_slug" ELSE "lever_slug"

\* firm[key], "" when the firm has no such field
SlugOf(f, key) == IF key \in DOMAIN f THEN f[key] ELSE <<>>

\* firms.filter(f => f.greenhouse_slug) and firms.filter(f => f.lever_slug),
\* as the positions of the firms kept, in order
SlugFirms(fs, p) ==
  SelectSeq([k \in 1..Len(fs) |-> k], LAMBDA k : SlugOf(fs[k], SlugKey(p)) # <<>>)

\* a slice that is one item too long
batchSliceWide(i, length) ==
  {n \in 1..length : i < n /\ n <= i + CONCURRENCY + 1}

\* items.slice(i, i + concurrency), as 1-based positions in items
batchSlice(i, length) ==
  {n \in 1..length : i < n /\ n <= i + CONCURRENCY}

\* one iteration of batchProcess's loop up to await Promise.all: fn is
\* called on every item of the slice and sends its request
StartSlice(i, its) ==
  /\ bi' = i
  /\ fst' = [n \in 1..Len(its) |->
               IF n \in batchSlice(i, Len(its)) THEN "inflight"
               ELSE IF n <= i THEN "done" ELSE "idle"]
  /\ fpc' = "pass"

\* main calls batchProcess for a provider; with no item the call returns
\* at once
StartPass(p, fs) ==
  \E its \in {SlugFirms(fs, p)} :
    /\ pass' = p
    /\ items' = its
    /\ IF Len(its) > 0
       THEN StartSlice(0, its)
       ELSE /\ bi' = 0
            /\ fst' = <<>>
            /\ fpc' = IF p = "greenhouse" THEN "afterGh" ELSE "afterLv"

\* main up to its first await: load the database, clear the job lists,
\* start the Greenhouse pass
FMain ==
  /\ script = "fetcher"
  /\ fpc = "start"
  /\ firms' = [k \in 1..Len(dataFile) |-> ClearJobs(dataFile[k])]
  /\ StartPass("greenhouse", firms')
  /\ stats' = NoStats
  /\ UNCHANGED <<script, dataFile, timer, slept, discVars, probeVars,
                 scenario, run, apiKey, now, jq, allJobs, fileVars, histVars>>

\* the request of item n ends (response, error or abort after the timeout)
\* and the callback handed to batchProcess runs to its end
FResponse(n) ==
  /\ fpc = "pass"
  /\ n \in 1..Len(items)
  /\ fst[n] = "inflight"
  /\ \E slug \in {SlugOf(firms[items[n]], SlugKey(pass))} :
     \E raw \in {Upstream(scenario,
                           [service |-> pass, slug |-> slug, q |-> 0])} :
     \E jobs \in {IF pass = "greenhouse"
                   THEN fetchGreenhouseJobs(slug, raw, now)
                   ELSE fetchLeverJobs(slug, raw, now)} :
       IF Len(jobs) > 0
       THEN /\ firms' = [firms EXCEPT ![items[n]].jobs = @ \o jobs]
            /\ stats' = IF pass = "greenhouse"
                        THEN [stats EXCEPT !.ghHits = @ + 1,
                                           !.ghJobs = @ + Len(jobs)]
                        ELSE [stats EXCEPT !.lvHits = @ + 1,
                                           !.lvJobs = @ + Len(jobs)]
       ELSE UNCHANGED <<firms, stats>>
  /\ fst' = [fst EXCEPT ![n] = "done"]
  /\ UNCHANGED <<script, dataFile, timer, slept, discVars, probeVars,
                 scenario, run, apiKey, now, fpc, pass, items, bi, jq,
                 allJobs, fileVars, histVars>>

\* Promise.all of the slice resolves: sleep before the next slice, or
\* return to main
FBatchDone ==
  /\ fpc = "pass"
  /\ \A n \in batchSlice(bi, Len(items)) : fst[n] = "done"
  /\ IF bi + CONCURRENCY < Len(items)
     THEN /\ timer' = [ms |-> DELAY_MS, pass |-> pass, i |-> bi]
          /\ fpc' = "delay"
          /\ UNCHANGED ghlv
     ELSE /\ fpc' = IF pass = "greenhouse" THEN "afterGh" ELSE "afterLv"
          /\ ghlv' = IF pass = "lever"
                     THEN [k \in 1..Len(firms) |-> firms[k].jobs] ELSE ghlv
          /\ UNCHANGED timer
  /\ UNCHANGED <<script, dataFile, slept, discVars, probeVars, scenario, run,
                 apiKey, now, firms, batchVars, stats, jq, allJobs, fileVars,
                 jsLog, unmatched, runsLog>>

\* sleep(DELAY_MS) is over: the next slice starts
FDelayElapsed ==
  /\ fpc = "delay"
  /\ timer' = NoTimer
  /\ slept' = Append(slept, timer)
  /\ StartSlice(bi + CONCURRENCY, items)
  /\ UNCHANGED <<script, dataFile, discVars, probeVars, scenario, run, apiKey,
                 now, firms, pass, items, stats, jq, allJobs, fileVars,
                 histVars>>

\* main goes on after the Greenhouse pass: the Lever pass
FLeverPass ==
  /\ fpc = "afterGh"
  /\ StartPass("lever", firms)
  /\ ghlv' = IF Len(SlugFirms(firms, "lever")) = 0
             THEN [k \in 1..Len(firms) |-> firms[k].jobs] ELSE ghlv
  /\ UNCHANGED <<script, dataFile, timer, slept, discVars, probeVars,
                 scenario, run, apiKey, now, firms, stats, jq, allJobs,
                 fileVars, jsLog, unmatched, runsLog>>

\* the top of the loop over queries for query number q: send its request,
\* or return allJobs when the queries are used up
ToQuery(q) ==
  IF q <= Len(queries)
  THEN /\ jq' = q
       /\ fpc' = "js"
  ELSE /\ jq' = 0
       /\ fpc' = "afterJs"

LogQuery(log, q) ==
  IF q <= Len(queries)
  THEN Append(log, [event |-> "request", q |-> q]) ELSE log

\* main goes on after the Lever pass: fetchJSearchJobs(apiKey) up to its
\* first await, or to its return when there is no key
FJSearchPass ==
  /\ fpc = "afterLv"
  /\ IF KeyAbsent(apiKey)
     THEN /\ fpc' = "afterJs"
          /\ UNCHANGED <<jq, jsLog>>
     ELSE /\ ToQuery(1)
          /\ jsLog' = LogQuery(jsLog, 1)
  /\ allJobs' = <<>>
  /\ UNCHANGED <<script, dataFile, timer, slept, discVars, probeVars,
                 scenario, run, apiKey, now, firms, batchVars, stats,
                 fileVars, ghlv, unmatched, runsLog>>

\* the request of the query under way ends: a failed request goes on to
\* the next query by continue, a response is parsed and followed by
\* sleep(500)
FJSearchResponse ==
  /\ fpc = "js"
  /\ LET h   == JSearchHandled(Upstream(scenario,
                  [service |-> "jsearch", slug |-> <<>>, q |-> jq]))
         log == Append(jsLog, [event |-> "response", q |-> jq])
     IN  /\ allJobs' = allJobs \o h.added
         /\ IF h.sleeps
            THEN /\ timer' = [ms |-> JSEARCH_SLEEP_MS, pass |-> "jsearch",
                              i |-> jq]
                 /\ fpc' = "jsSleep"
                 /\ jsLog' = log
                 /\ UNCHANGED jq
            ELSE /\ ToQuery(jq + 1)
                 /\ jsLog' = LogQuery(log, jq + 1)
                 /\ UNCHANGED timer
  /\ UNCHANGED <<script, dataFile, slept, discVars, probeVars, scenario, run,
                 apiKey, now, firms, batchVars, stats, fileVars, ghlv,
                 unmatched, runsLog>>

\* sleep(500) is over: the next query, or the return of allJobs
FJSearchSleepElapsed ==
  /\ fpc = "jsSleep"
  /\ timer' = NoTimer
  /\ slept' = Append(slept, timer)
  /\ ToQuery(jq + 1)
  /\ jsLog' = LogQuery(Append(jsLog, [event |-> "slept", q |-> jq]), jq + 1)
  /\ UNCHANGED <<script, dataFile, discVars, probeVars, scenario, run, apiKey,
                 now, firms, batchVars, stats, allJobs, fileVars, ghlv,
                 unmatched, runsLog>>

RunRecord(end, out, un, st) ==
  [end |-> end, apiKey |-> apiKey, now |-> now, ghlv |-> ghlv,
   jsLog |-> jsLog, output |-> out, unmatched |-> un, stats |-> st]

\* main from the return of fetchJSearchJobs to its end: match, merge, write
\* the discoveries and the public output; a TypeError thrown by
\* matchJSearchToFirms rejects main() and the process exits with code 1
FFinish ==
  /\ fpc = "afterJs"
  /\ IF Len(allJobs) > 0 /\ matchThrows(allJobs)
     THEN /\ fpc' = "failed"
          /\ runsLog' = Append(runsLog, RunRecord("failed", <<>>, <<>>, stats))
          /\ UNCHANGED <<firms, stats, fileVars, unmatched>>
     ELSE \E m \in {IF Len(allJobs) > 0
                     THEN matchJSearchToFirms(allJobs, firms, now)
                     ELSE [matched |-> <<>>, unmatched |-> <<>>]} :
          \E merged \in {AddMatched(firms, m.matched, Len(m.matched))} :
            /\ firms' = merged.firms
            /\ stats' = [stats EXCEPT !.jsJobs = merged.jsJobs,
                                      !.jsHits = Len(m.matched)]
            /\ unmatched' = m.unmatched
            /\ discoveriesFile' =
                 IF Len(m.unmatched) > 0
                 THEN [exists |-> TRUE, content |-> m.unmatched]
                 ELSE discoveriesFile
            /\ outputFile' =
                 [exists |-> TRUE,
                  content |-> [k \in 1..Len(firms) |->
                                 OutputRecord(merged.firms[k])]]
            /\ fpc' = "done"
            /\ runsLog' = Append(runsLog,
                 RunRecord("done", outputFile'.content, m.unmatched, stats'))
  /\ UNCHANGED <<script, dataFile, timer, slept, discVars, probeVars,
                 scenario, run, apiKey, now, batchVars, jq, allJobs, ghlv,
                 jsLog>>

\* the fetcher is run again, with or without the key, at once or a quarter
\* of a day later
FNewRun ==
  /\ script = "fetcher"
  /\ fpc \in {"done", "failed"}
  /\ run < MaxRuns
  /\ run' = run + 1
  /\ apiKey' \in {"", "key"}
  /\ now' \in {now, now + ClockStep}
  /\ fpc' = "start"
  /\ firms' = <<>>
  /\ pass' = "none"
  /\ items' = <<>>
  /\ bi' = 0
  /\ fst' = <<>>
  /\ stats' = NoStats
  /\ jq' = 0
  /\ allJobs' = <<>>
  /\ ghlv' = <<>>
  /\ jsLog' = <<>>
  /\ unmatched' = <<>>
  /\ slept' = <<>>
  /\ UNCHANGED <<script, dataFile, timer, discVars, probeVars, scenario,
                 fileVars, runsLog>>

\* ------------------------------------------------------------------------
\* One probe call, on its own
\* ------------------------------------------------------------------------

NoCall == [provider |-> "none", slug |-> <<>>]

NoRaw == [kind |-> "none", status |-> NoStatus, body |-> "html"]

NoResult == [status |-> NoStatus, data |-> "null", error |-> "null"]

\* the slugs a probe is called with: the candidates of the firms
ProbeSlugs ==
  UNION {{generateSlugCandidates(FirmsBase0[k])[c] :
            c \in 1..Len(generateSlugCandidates(FirmsBase0[k]))} : k \in Firms}

\* probeGreenhouse(slug) or probeLever(slug) is called: makeRequest sends
\* the GET and the probe awaits it
PCall ==
  /\ prPc = "idle"
  /\ \E provider \in {"greenhouse", "lever"}, slug \in ProbeSlugs :
       prCall' = [provider |-> provider, slug |-> slug]
  /\ prPc' = "pending"
  /\ UNCHANGED <<prRaw, prResult, prProbe, mainVars>>

\* the request ends: 'end' of the response, 'error' or 'timeout'
PSettle ==
  /\ prPc = "pending"
  /\ \E raw \in RawOutcomes :
       /\ prRaw' = raw
       /\ prResult' = makeRequest(raw)
  /\ prPc' = "resolved"
  /\ UNCHANGED <<prCall, prProbe, mainVars>>

\* the probe goes on after its await and returns
PReturn ==
  /\ prPc = "resolved"
  /\ prProbe' = IF prCall.provider = "greenhouse"
                THEN probeGreenhouse(prCall.slug, prRaw)
                ELSE probeLever(prCall.slug, prRaw)
  /\ prPc' = "returned"
  /\ UNCHANGED <<prCall, prRaw, prResult, mainVars>>

\* ------------------------------------------------------------------------
\* Specification
\* ------------------------------------------------------------------------

ProbeInit ==
  /\ prPc = "idle"
  /\ prCall = NoCall
  /\ prRaw = NoRaw
  /\ prResult = NoResult
  /\ prProbe = [found |-> FALSE]

FetchIdle ==
  /\ run = 1
  /\ now = Now0
  /\ fpc = "start"
  /\ firms = <<>>
  /\ pass = "none"
  /\ items = <<>>
  /\ bi = 0
  /\ fst = <<>>
  /\ stats = NoStats
  /\ jq = 0
  /\ allJobs = <<>>
  /\ outputFile = NoFile
  /\ discoveriesFile = NoFile
  /\ ghlv = <<>>
  /\ jsLog = <<>>
  /\ unmatched = <<>>
  /\ runsLog = <<>>

DiscIdle ==
  /\ data = <<>>
  /\ dpc = "start"
  /\ di = 0
  /\ proc = [k \in Firms |-> IdleProc]
  /\ probes = [k \in Firms |-> <<>>]
  /\ results = [greenhouse |-> 0, lever |-> 0, noMatch |-> 0]
  /\ summary = <<>>

\* node runs one of the two scripts: the discoverer on the curated
\* database, or the fetcher on the annotated one
Init ==
  /\ \/ /\ script = "discoverer"
        /\ dataFile = FirmsBase0
        /\ scenario = NoFault
        /\ apiKey = ""
     \/ /\ script = "fetcher"
        /\ dataFile = AnnotatedBase
        /\ scenario \in Scenarios
        /\ apiKey \in {"", "key"}
  /\ timer = NoTimer
  /\ slept = <<>>
  /\ DiscIdle
  /\ FetchIdle
  /\ ProbeInit

Next ==
  \/ DMain
  \/ \E k \in Firms : DGreenhouseResponse(k)
  \/ \E k \in Firms : DLeverResponse(k)
  \/ DBatchDone
  \/ DDelayElapsed
  \/ FMain
  \/ \E n \in 1..NFirms : FResponse(n)
  \/ FBatchDone
  \/ FDelayElapsed
  \/ FLeverPass
  \/ FJSearchPass
  \/ FJSearchResponse
  \/ FJSearchSleepElapsed
  \/ FFinish
  \/ FNewRun

Spec == Init /\ [][Next]_vars

ProbeNext ==
  \/ PCall
  \/ PSettle
  \/ PReturn

\* the probes as functions of what the network does, apart from the drivers
ProbeSpec == Init /\ [][ProbeNext]_vars

\* ------------------------------------------------------------------------
\* Properties of the slug discoverer
\* ------------------------------------------------------------------------

Slug(firm, key) == IF key \in DOMAIN firm THEN firm[key] ELSE <<>>

NoHit(k) == \A n \in 1..Len(probes[k]) : probes[k][n].outcome = "miss"

\* the candidate x is a best one of the list: none is shorter, and none of
\* the same length has fewer hyphens
Shortest(x, list) ==
  \A n \in 1..Len(list) :
    /\ Len(x) <= Len(list[n])
    /\ Len(x) = Len(list[n]) => HyphenCount(x) <= HyphenCount(list[n])

\* C4: a firm that has candidates and whose probes all missed leaves
\* processFirm, and is written to the file, with greenhouse_slug equal to the
\* first element of its candidate list, and that element is a shortest
\* candidate with, among the shortest, the fewest hyphens.
C4_FallbackIsFirstShortest ==
  \A k \in Firms :
    (proc[k].pc = "done" /\ NoHit(k) /\ Len(proc[k].candidates) > 0) =>
      /\ Slug(data[k], "greenhouse_slug") = proc[k].candidates[1]
      /\ Shortest(proc[k].candidates[1], proc[k].candidates)
      /\ dpc = "done" => Slug(dataFile[k], "greenhouse_slug") = proc[k].candidates[1]

\* firm 1 (two candidates of equal length, the hyphenated one generated
\* first) went through all its probes without a hit and the file is written
C4_Witness ==
  /\ script = "discoverer"
  /\ dpc = "done"
  /\ NoHit(1)
  /\ Len(probes[1]) = 4
  /\ Len(proc[1].candidates) = 2
  /\ Len(proc[1].candidates[1]) = Len(proc[1].candidates[2])
  /\ "greenhouse_slug" \in DOMAIN dataFile[1]

\* the body shape each provider's probe looks for
ExpectedShape(provider, body) ==
  \/ provider = "greenhouse" /\ body = "gh"
  \/ provider = "lever" /\ body = "arr"

\* C5: a probe that has returned reports found exactly when the network
\* answered with status 200 and a body of the provider's shape; on every
\* other outcome it returns the one value {found: false}, which carries
\* neither the status nor the error.
C5_ProbeFoundIff200AndShape ==
  prPc = "returned" =>
    /\ prProbe.found <=>
         /\ prRaw.kind = "response"
         /\ prRaw.status = 200
         /\ ExpectedShape(prCall.provider, prRaw.body)
    /\ prProbe.found => prProbe = [found |-> TRUE, slug |-> prCall.slug]
    /\ ~prProbe.found => prProbe = [found |-> FALSE]

\* a Greenhouse probe returned not-found on a 404 whose body has the
\* Greenhouse shape
C5_Witness ==
  /\ prPc = "returned"
  /\ prCall.provider = "greenhouse"
  /\ prRaw.kind = "response"
  /\ prRaw.status = 404
  /\ prRaw.body = "gh"
  /\ ~prProbe.found

ProviderKey(provider) ==
  IF provider = "greenhouse" THEN "greenhouse_slug" ELSE "lever_slug"

\* C10: per firm, the probes go through the candidates in list order; per
\* provider, each candidate is probed at most once, no probe follows a hit
\* of that provider, the slug recorded is the first candidate whose probe of
\* that provider hit; and no probe at all follows once both have hit.
C10_ProbeOrder ==
  \A k \in Firms :
    LET log == probes[k]
        Hit(m) == log[m].outcome = "hit"
    IN  /\ \A m, n \in 1..Len(log) :
             m < n =>
               /\ log[m].c <= log[n].c
               /\ log[m].provider = log[n].provider =>
                    /\ log[m].c < log[n].c
                    /\ ~Hit(m)
               /\ ~(\E g, l \in 1..(n - 1) :
                      /\ Hit(g) /\ log[g].provider = "greenhouse"
                      /\ Hit(l) /\ log[l].provider = "lever")
        /\ \A m \in 1..Len(log) :
             /\ log[m].c \in 1..Len(proc[k].candidates)
             /\ Hit(m) =>
                  /\ Slug(data[k], ProviderKey(log[m].provider))
                       = proc[k].candidates[log[m].c]
                  /\ \A n \in 1..Len(log) :
                       (Hit(n) /\ log[n].provider = log[m].provider) =>
                         log[m].c <= log[n].c

\* firm 1 hit Lever on its first candidate and Greenhouse on its second
C10_Witness ==
  /\ proc[1].pc = "done"
  /\ Len(probes[1]) = 3
  /\ probes[1][1] = [provider |-> "greenhouse", c |-> 1, outcome |-> "miss"]
  /\ probes[1][2] = [provider |-> "lever", c |-> 1, outcome |-> "hit"]
  /\ probes[1][3] = [provider |-> "greenhouse", c |-> 2, outcome |-> "hit"]
  /\ data[1].greenhouse_slug = proc[1].candidates[2]
  /\ data[1].lever_slug = proc[1].candidates[1]

\* ------------------------------------------------------------------------
\* Properties of the job fetcher
\* ------------------------------------------------------------------------

Range(seq) == {seq[n] : n \in 1..Len(seq)}

\* C1: whenever the public output file exists it holds one record per firm
\* of the database, in order, and no record has a greenhouse_slug or a
\* lever_slug key.
C1_OutputHasNoSlugKeys ==
  outputFile.exists =>
    /\ Len(outputFile.content) = Len(dataFile)
    /\ \A k \in 1..Len(outputFile.content) :
         /\ outputFile.content[k].id = dataFile[k].id
         /\ "greenhouse_slug" \notin DOMAIN outputFile.content[k]
         /\ "lever_slug" \notin DOMAIN outputFile.content[k]

\* a run has written the output; firm 2 carries both slugs in the database
\* and got jobs
C1_Witness ==
  /\ fpc = "done"
  /\ outputFile.exists
  /\ Slug(dataFile[2], "greenhouse_slug") # <<>>
  /\ Slug(dataFile[2], "lever_slug") # <<>>
  /\ Len(outputFile.content[2].jobs) > 0

\* a job without the field that is computed from the clock
Undated(job) ==
  [title |-> job.title, type |-> job.type, salary |-> job.salary,
   url |-> job.url]

UndatedJobs(jobs) == [n \in 1..Len(jobs) |-> Undated(jobs[n])]

\* run m of the log and the run after it both wrote the output, with the
\* same credential (the services answer the same way all along a behaviour)
Repeated(m) ==
  /\ m + 1 <= Len(runsLog)
  /\ runsLog[m].end = "done"
  /\ runsLog[m + 1].end = "done"
  /\ runsLog[m].apiKey = runsLog[m + 1].apiKey

\* C2 as stated: two runs in succession on the same database and the same
\* upstream responses write, for every firm, the same set of jobs.
C2_SameJobSets ==
  \A m \in 1..Len(runsLog) :
    Repeated(m) =>
      \A k \in 1..Len(dataFile) :
        Range(runsLog[m].output[k].jobs) = Range(runsLog[m + 1].output[k].jobs)

\* C2, amended: two runs in succession on the same database and the same
\* upstream responses write, for every firm, job lists that agree in length,
\* order, title, type, salary and url, and agree in full when the clock
\* reads the same; the posted field is computed from the clock of the run.
\* No job of the database file's job lists is in the output of any run.
C2_SameJobsUpToPosted ==
  /\ \A m \in 1..Len(runsLog) :
       Repeated(m) =>
         \A k \in 1..Len(dataFile) :
           /\ UndatedJobs(runsLog[m].output[k].jobs)
                = UndatedJobs(runsLog[m + 1].output[k].jobs)
           /\ runsLog[m].now = runsLog[m + 1].now =>
                runsLog[m].output[k].jobs = runsLog[m + 1].output[k].jobs
  /\ \A m \in 1..Len(runsLog) :
       runsLog[m].end = "done" =>
         \A k \in 1..Len(dataFile) :
           Range(runsLog[m].output[k].jobs) \cap Range(dataFile[k].jobs) = {}

\* two runs with the key, a quarter of a day apart, both wrote the output;
\* firm 5, which has a job in the database file, got a job both times, and
\* its posted field differs between the runs
C2_Witness ==
  /\ Len(runsLog) = 2
  /\ Repeated(1)
  /\ runsLog[1].apiKey = "key"
  /\ runsLog[1].now # runsLog[2].now
  /\ Len(dataFile[5].jobs) > 0
  /\ Len(runsLog[1].output[5].jobs) > 0
  /\ runsLog[1].output[5].jobs # runsLog[2].output[5].jobs

\* C3: of two runs on the same database and the same Greenhouse and Lever
\* responses, one without and one with the credential, the job lists at the
\* end of the Lever pass agree (in full when the clock reads the same, and
\* up to the posted field otherwise); the run without the credential issues
\* no aggregator request, matches nothing and writes exactly the Greenhouse
\* and Lever jobs.
C3_CredentialLeavesBoardsAlone ==
  /\ \A m, n \in 1..Len(runsLog) :
       (runsLog[m].apiKey = "" /\ runsLog[n].apiKey # "") =>
         \A k \in 1..Len(dataFile) :
           /\ UndatedJobs(runsLog[m].ghlv[k]) = UndatedJobs(runsLog[n].ghlv[k])
           /\ runsLog[m].now = runsLog[n].now =>
                runsLog[m].ghlv[k] = runsLog[n].ghlv[k]
  /\ \A m \in 1..Len(runsLog) :
       runsLog[m].apiKey = "" =>
         /\ runsLog[m].end = "done"
         /\ runsLog[m].jsLog = <<>>
         /\ runsLog[m].stats.jsHits = 0
         /\ runsLog[m].stats.jsJobs = 0
         /\ \A k \in 1..Len(dataFile) :
              runsLog[m].output[k].jobs = runsLog[m].ghlv[k]
  /\ apiKey = "" => (jsLog = <<>> /\ allJobs = <<>> /\ fpc \notin {"js", "jsSleep"})

\* a run with the key that added an aggregator job to firm 3, then a run
\* without it at the same clock reading, which wrote the Greenhouse and Lever
\* jobs of firm 2
C3_Witness ==
  /\ Len(runsLog) = 2
  /\ runsLog[1].apiKey = "key"
  /\ runsLog[1].stats.jsJobs > 0
  /\ runsLog[2].apiKey = ""
  /\ runsLog[1].now = runsLog[2].now
  /\ Len(runsLog[2].ghlv[2]) > 1
  /\ runsLog[1].output[3].jobs # runsLog[2].output[3].jobs

\* the number of the group of CONCURRENCY items that item n belongs to
Group(n) == (n - 1) \div CONCURRENCY

\* the requests of the discoverer that wait for their response
DiscOutstanding == Cardinality({k \in Firms : proc[k].pc \in {"gh", "lv"}})

\* the requests of the fetcher that wait for their response
FetchOutstanding ==
  Cardinality({n \in 1..Len(fst) : fst[n] = "inflight"})
    + (IF fpc = "js" THEN 1 ELSE 0)

\* the delay of ms that the driver of pass p began after the group starting
\* at index i has elapsed
Elapsed(ms, p, i) ==
  \E n \in 1..Len(slept) : slept[n] = [ms |-> ms, pass |-> p, i |-> i]

\* C6: in both drivers at most CONCURRENCY requests are outstanding; an item
\* of a later group has started only if every item of the groups before it
\* is done and the delay after the preceding group has elapsed; and the
\* delay is begun only when every item up to that group is done.
C6_BatchesBounded ==
  /\ DiscOutstanding <= CONCURRENCY
  /\ FetchOutstanding <= CONCURRENCY
  /\ \A k \in Firms :
       (proc[k].pc # "idle" /\ Group(k) > 0) =>
         /\ \A j \in Firms : Group(j) < Group(k) => proc[j].pc = "done"
         /\ Elapsed(BATCH_DELAY, "discoverer", (Group(k) - 1) * CONCURRENCY)
  /\ \A n \in 1..Len(fst) :
       (fst[n] # "idle" /\ Group(n) > 0) =>
         /\ \A j \in 1..Len(fst) : Group(j) < Group(n) => fst[j] = "done"
         /\ Elapsed(DELAY_MS, pass, (Group(n) - 1) * CONCURRENCY)
  /\ timer.pass = "discoverer" =>
       \A j \in Firms : j <= timer.i + CONCURRENCY => proc[j].pc = "done"
  /\ timer.pass \in {"greenhouse", "lever"} =>
       \A j \in 1..Len(fst) : j <= timer.i + CONCURRENCY => fst[j] = "done"

\* the Greenhouse pass of the fetcher is in its second group: the sixth
\* item's request is out, the first five are done and the delay has elapsed
C6_Witness ==
  /\ fpc = "pass"
  /\ pass = "greenhouse"
  /\ Len(fst) > CONCURRENCY
  /\ fst[CONCURRENCY + 1] = "inflight"
  /\ \A j \in 1..CONCURRENCY : fst[j] = "done"
  /\ Elapsed(DELAY_MS, "greenhouse", 0)

\* C7 as stated: whatever the requests of a run come to, the run does not
\* abort, and a run that has ended has written the public output with one
\* record per firm of the database.
C7_FailuresAbsorbed ==
  /\ fpc # "failed"
  /\ fpc = "done" =>
       /\ outputFile.exists
       /\ Len(outputFile.content) = Len(dataFile)

\* C8 as stated: after a run that completed, the discoveries file holds
\* exactly the unmatched aggregator results of that run (none when the run
\* had none or skipped the pass).
C8_DiscoveriesOverwritten ==
  fpc = "done" => discoveriesFile.content = unmatched

\* C9 as stated: in the aggregator pass the queries are requested one by
\* one, each once, in order, every one of them by the end of the pass; a
\* request is sent only when the one before it has been answered, and only
\* after the delay that follows that answer has elapsed.
C9_OneRequestPerQueryThenDelay ==
  /\ \A m, n \in 1..Len(jsLog) :
       (m < n /\ jsLog[m].event = "request" /\ jsLog[n].event = "request") =>
         jsLog[m].q < jsLog[n].q
  /\ (apiKey # "" /\ fpc \in {"afterJs", "done", "failed"}) =>
       \A q \in 1..Len(queries) :
         \E n \in 1..Len(jsLog) : jsLog[n] = [event |-> "request", q |-> q]
  /\ \A n \in 2..Len(jsLog) :
       jsLog[n].event = "request" =>
         /\ \E m \in 1..(n - 1) :
              jsLog[m] = [event |-> "response", q |-> jsLog[n].q - 1]
         /\ jsLog[n - 1] = [event |-> "slept", q |-> jsLog[n].q - 1]

\* ------------------------------------------------------------------------
\* Properties of the discoverer's summary
\* ------------------------------------------------------------------------

\* the firms of the run whose processFirm call returned with the flag set
HitFirms(flag) == {k \in 1..Len(data) : proc[k].pc = "done" /\ proc[k][flag]}

\* C11 as stated: the summary printed at the end of a discoverer run gives
\* the number of firms with a Greenhouse hit, the number of firms with a
\* Lever hit and the number of firms with neither, a firm that hit on both
\* providers counting under both.
C11_SummaryCounts ==
  summary # <<>> =>
    /\ summary[1].total = Len(data)
    /\ summary[1].greenhouse = Cardinality(HitFirms("foundGreenhouse"))
    /\ summary[1].lever = Cardinality(HitFirms("foundLever"))
    /\ summary[1].noMatch =
         Len(data) - Cardinality(HitFirms("foundGreenhouse")
                                   \cup HitFirms("foundLever"))

\* ------------------------------------------------------------------------
\* Properties of the aggregator pass
\* ------------------------------------------------------------------------

\* the firm whose normalized name is the normalized employer name of raw
\* result i, 0 when there is none
FirmOfResult(i) == FirmIndexGet(firms, normalize(allJobs[i].employer_name))

\* the title raw result i is listed under
TitleOfResult(i) ==
  IF allJobs[i].job_title # <<>> THEN allJobs[i].job_title ELSE Untitled

\* the raw results matched to firm k whose title is neither among the
\* Greenhouse and Lever jobs of the firm nor that of an earlier result
\* matched to the firm: those that find no job of their title in the list
FreshResults(k) ==
  {i \in 1..Len(allJobs) :
     /\ FirmOfResult(i) = k
     /\ \A n \in 1..Len(ghlv[k]) : ghlv[k][n].title # TitleOfResult(i)
     /\ \A h \in 1..(i - 1) :
          FirmOfResult(h) = k => TitleOfResult(h) # TitleOfResult(i)}

\* C12: when a run has ended, the job list of every firm is its list at the
\* end of the Lever pass followed by exactly those aggregator results
\* matched to it that found no job of the same title in the list when their
\* turn came, in the order of the results; so no job added by the aggregator
\* pass has the title of another job of its firm, and jsJobs counts the
\* jobs added.
C12_AppendedIffTitleNew ==
  fpc = "done" =>
    /\ \A k \in 1..Len(firms) :
         /\ Len(firms[k].jobs) = Len(ghlv[k]) + Cardinality(FreshResults(k))
         /\ SubSeq(firms[k].jobs, 1, Len(ghlv[k])) = ghlv[k]
         /\ \A i \in FreshResults(k) :
              firms[k].jobs[Len(ghlv[k])
                            + Cardinality({h \in FreshResults(k) : h <= i})]
                = JSearchJob(allJobs[i], now)
         /\ \A p \in (Len(ghlv[k]) + 1)..Len(firms[k].jobs) :
              \A q \in 1..Len(firms[k].jobs) :
                q # p => firms[k].jobs[q].title # firms[k].jobs[p].title
    /\ stats.jsJobs =
         Cardinality(UNION {FreshResults(k) : k \in 1..Len(firms)})

\* a run that has ended in which one aggregator result was appended
\* (firm 3), a later result of the same title was left out (firm 3), and a
\* result with the title of a Greenhouse job was left out (firm 2)
C12_Witness ==
  /\ fpc = "done"
  /\ \E i, h \in 1..Len(allJobs) :
       /\ h < i
       /\ FirmOfResult(i) = 3
       /\ FirmOfResult(h) = 3
       /\ TitleOfResult(i) = TitleOfResult(h)
       /\ h \in FreshResults(3)
       /\ firms[3].jobs[Len(firms[3].jobs)] = JSearchJob(allJobs[h], now)
  /\ \E i \in 1..Len(allJobs) :
       /\ FirmOfResult(i) = 2
       /\ \E n \in 1..Len(ghlv[2]) : ghlv[2][n].title = TitleOfResult(i)
       /\ Len(firms[2].jobs) = Len(ghlv[2])

\* the known firms whose normalized name is the normalized employer name
\* of raw result i
KnownFirms(i) ==
  {k \in 1..Len(firms) :
     normalize(firms[k].name) = normalize(allJobs[i].employer_name)}

\* the raw results no known firm goes with
StrangerResults == {i \in 1..Len(allJobs) : KnownFirms(i) = {}}

\* the discovery entry of raw result i
DiscoveryOf(i) ==
  [employer |-> allJobs[i].employer_name, city |-> allJobs[i].job_city,
   state |-> allJobs[i].job_state, country |-> allJobs[i].job_country,
   job |-> JSearchJob(allJobs[i], now)]

\* the classification of the raw results of a run whose matching returned:
\* the results with a known firm are the matched ones, each with one firm
\* of its normalized name; the others are the unmatched discoveries, in
\* order; every job a firm got in the aggregator pass comes from a result
\* matched to that firm, and the public output carries these lists
ClassifiedOnce ==
  /\ stats.jsHits = Len(allJobs) - Cardinality(StrangerResults)
  /\ Len(unmatched) = Cardinality(StrangerResults)
  /\ \A i \in StrangerResults :
       unmatched[Cardinality({h \in StrangerResults : h <= i})]
         = DiscoveryOf(i)
  /\ \A i \in 1..Len(allJobs) :
       (i \notin StrangerResults) <=> (FirmOfResult(i) \in KnownFirms(i))
  /\ \A k \in 1..Len(firms) :
       /\ \A p \in (Len(ghlv[k]) + 1)..Len(firms[k].jobs) :
            \E i \in 1..Len(allJobs) :
              /\ k \in KnownFirms(i)
              /\ firms[k].jobs[p] = JSearchJob(allJobs[i], now)
       /\ outputFile.content[k].jobs = firms[k].jobs

\* C13 as stated: once the aggregator pass of a run is over, every raw
\* result has been classified exactly once, as matched to a known firm of
\* its normalized employer name or else as an unmatched discovery, none is
\* dropped, and no unmatched result is in a job list of the public output.
C13_EveryResultClassified ==
  fpc \in {"done", "failed"} =>
    /\ stats.jsHits + Len(unmatched) = Len(allJobs)
    /\ fpc = "done" => ClassifiedOnce

====
